---- MODULE Spec2Model ----
(***************************************************************************)
(* A model of newsbot.py: the article model (NewsArticle), the Notion      *)
(* record store manager (NotionManager), the feed clients and the run      *)
(* orchestrator (NewsAggregator.run, run_cleanup_only).                    *)
(*                                                                         *)
(* Text is modelled as a sequence of one-character strings, so that        *)
(* str.strip, str.lower and urlparse are computed and not assumed.         *)
(* Python's None is the one-element sequence None, which no text equals.   *)
(***************************************************************************)
EXTENDS Integers, Sequences, FiniteSets, TLC

VARIABLES
    \* ---- article model (SpecArticle) ----
    rawArgs,            \* the arguments of the last NewsArticle(...) call
    article,            \* the constructed NewsArticle, or NoArticle
    properties,         \* the properties of the last pages.create payload
    \* ---- the store and the world ----
    store,              \* the Notion database: a sequence of pages, id = index
    schema_complete,    \* whether the database has every required property
    now,                \* the clock, in days
    feed,               \* what each provider serves: client -> response
    failures,           \* external calls that have failed so far
    empty_left,         \* empty result pages the store may still return
    \* ---- the process ----
    run,                \* number of the current process run
    mode,               \* "full" | "cleanup" (sys.argv[1] == "--cleanup-only")
    pc,                 \* position of the process
    exit_code,          \* the exit status, once pc = "done"
    \* ---- NotionManager ----
    _existing_titles,   \* self._existing_titles: [set |-> BOOLEAN, titles |-> set]
    existing_headlines, \* the local set (existing_titles / existing_headlines)
    has_more,
    start_cursor,
    response,           \* the last databases.query response
    page_idx,           \* position in response.results (sweep)
    deleted_count,
    added_count,
    skipped_count,
    error_count,
    art_idx,            \* position in articles (add_articles)
    stats,              \* the last result of get_database_stats
    \* ---- NewsAggregator ----
    all_articles,
    client_idx,         \* position in api_clients (_fetch_articles)
    summary,            \* what the run printed at its end
    \* ---- history (observation only) ----
    calls,              \* the external calls of this run, in order
    outcomes,           \* add_articles: per record, its outcome and the index then
    load_snapshot,      \* the stored titles when the index load of this run began
    load_ok,            \* whether this run's index load succeeded
    sweep_snapshot,     \* ids matching the sweep filter when the sweep began
    prev                \* the previous run: its batch and what happened in it

artVars == <<rawArgs, article, properties>>
worldVars == <<store, schema_complete, now, feed, failures, empty_left>>
procVars == <<run, mode, pc, exit_code>>
mgrVars == <<_existing_titles, existing_headlines, has_more, start_cursor, response,
             page_idx, deleted_count, added_count, skipped_count, error_count, art_idx,
             stats>>
aggVars == <<all_articles, client_idx, summary>>
histVars == <<calls, outcomes, load_snapshot, load_ok, sweep_snapshot, prev>>
pipeVars == <<worldVars, procVars, mgrVars, aggVars, histVars>>
vars == <<artVars, pipeVars>>

(***************************************************************************)
(* Text                                                                    *)
(***************************************************************************)
None == <<"None">>

\* Python truthiness of an Optional[str]: neither None nor "".
Truthy(s) == s # None /\ s # <<>>

Whitespace == {" ", "\t", "\n", "\r"}

Min(S) == CHOOSE x \in S : \A y \in S : x <= y
Max(S) == CHOOSE x \in S : \A y \in S : x >= y

\* str.strip(): drop the leading and the trailing whitespace.
Strip(s) ==
    LET keep == {i \in 1..Len(s) : s[i] \notin Whitespace}
    IN  IF keep = {} THEN <<>> ELSE SubSeq(s, Min(keep), Max(keep))

LowerChars == <<"a","b","c","d","e","f","g","h","i","j","k","l","m","n","o","p","q","r","s","t","u","v","w","x","y","z">>
UpperChars == <<"A","B","C","D","E","F","G","H","I","J","K","L","M","N","O","P","Q","R","S","T","U","V","W","X","Y","Z">>
DigitChars == <<"0","1","2","3","4","5","6","7","8","9">>

Range(s) == {s[i] : i \in 1..Len(s)}

LowerChar(c) ==
    IF c \in Range(UpperChars)
    THEN LowerChars[CHOOSE i \in 1..Len(UpperChars) : UpperChars[i] = c]
    ELSE c

\* str.lower()
Lower(s) == [i \in 1..Len(s) |-> LowerChar(s[i])]

S_NoTitle == <<"N","o"," ","T","i","t","l","e">>
S_Unknown == <<"U","n","k","n","o","w","n">>
S_General == <<"G","e","n","e","r","a","l">>
S_GNews == <<"G","N","e","w","s">>
S_MediaStack == <<"M","e","d","i","a","S","t","a","c","k">>
S_Currents == <<"C","u","r","r","e","n","t","s">>
S_Manual == <<"M","a","n","u","a","l">>
S_Sports == <<"S","p","o","r","t","s">>
S_Politics == <<"P","o","l","i","t","i","c","s">>
S_Business == <<"B","u","s","i","n","e","s","s">>
S_Technology == <<"T","e","c","h","n","o","l","o","g","y">>
S_Entertainment == <<"E","n","t","e","r","t","a","i","n","m","e","n","t">>
S_Health == <<"H","e","a","l","t","h">>

(***************************************************************************)
(* urllib.parse.urlparse, as far as scheme and netloc go                   *)
(***************************************************************************)
SchemeChars == Range(LowerChars) \cup Range(UpperChars) \cup Range(DigitChars) \cup {"+", "-", "."}

\* The characters urlsplit removes anywhere in the url.
UnsafeUrlChars == {"\t", "\r", "\n"}

RemoveUnsafe(u) == SelectSeq(u, LAMBDA c : c \notin UnsafeUrlChars)

LStrip(s) ==
    LET keep == {i \in 1..Len(s) : s[i] \notin Whitespace}
    IN  IF keep = {} THEN <<>> ELSE SubSeq(s, Min(keep), Len(s))

\* url.find(c): the first position of c, 0 when there is none (1-based here).
Find(u, c) ==
    LET at == {i \in 1..Len(u) : u[i] = c}
    IN  IF at = {} THEN 0 ELSE Min(at)

\* urlsplit: [scheme, netloc, raises]; raises is the ValueError of an
\* unbalanced "[" or "]" in the netloc.
urlparse(url) ==
    LET u0 == RemoveUnsafe(LStrip(url))
        i == Find(u0, ":")
        isScheme == /\ i > 1
                    /\ u0[1] \in Range(LowerChars) \cup Range(UpperChars)
                    /\ \A k \in 1..(i - 1) : u0[k] \in SchemeChars
        scheme == IF isScheme THEN Lower(SubSeq(u0, 1, i - 1)) ELSE <<>>
        u1 == IF isScheme THEN SubSeq(u0, i + 1, Len(u0)) ELSE u0
        hasNetloc == Len(u1) >= 2 /\ u1[1] = "/" /\ u1[2] = "/"
        delims == {k \in 3..Len(u1) : u1[k] \in {"/", "?", "#"}}
        delim == IF delims = {} THEN Len(u1) + 1 ELSE Min(delims)
        netloc == IF hasNetloc THEN SubSeq(u1, 3, delim - 1) ELSE <<>>
        raises == \/ ("[" \in Range(netloc) /\ "]" \notin Range(netloc))
                  \/ ("]" \in Range(netloc) /\ "[" \notin Range(netloc))
    IN  [scheme |-> scheme, netloc |-> netloc, raises |-> raises]

(***************************************************************************)
(* NewsArticle                                                             *)
(***************************************************************************)
\* datetime.isoformat() of the clock value t, as text.
isoformat(t) == <<"@", ToString(t)>>

\* __post_init__: the fields after clean-up. published_at: the given value,
\* or the construction time t when it is falsy.
NewsArticle(title, source, url, category, published_at, t) ==
    [title |-> IF Truthy(title) THEN Strip(title) ELSE S_NoTitle,
     source |-> IF Truthy(source) THEN Strip(source) ELSE S_Unknown,
     url |-> IF Truthy(url) THEN Strip(url) ELSE <<>>,
     category |-> IF Truthy(category) THEN Strip(category) ELSE S_General,
     published_at |-> IF Truthy(published_at) THEN published_at ELSE isoformat(t)]

\* _is_valid_url: all([result.scheme, result.netloc]); an exception is False.
_is_valid_url(url) ==
    LET result == urlparse(url)
    IN  IF result.raises THEN FALSE
        ELSE result.scheme # <<>> /\ result.netloc # <<>>

is_valid(a) ==
    /\ a.title # <<>>
    /\ a.title # S_NoTitle
    /\ a.url # <<>>
    /\ _is_valid_url(a.url)

(***************************************************************************)
(* NotionManager._create_page and _validate_option                         *)
(***************************************************************************)
valid_sources == {S_GNews, S_MediaStack, S_Currents, S_Manual, S_Unknown}
valid_categories == {S_General, S_Sports, S_Politics, S_Business, S_Technology,
                     S_Entertainment, S_Health}

\* The mutant of _validate_option: the value is passed through.
_validate_option_passthrough(value, field_type) == value

_validate_option(value, field_type) ==
    IF field_type = "source"
    THEN (IF value \in valid_sources THEN value ELSE S_Unknown)
    ELSE IF field_type = "category"
    THEN (IF value \in valid_categories THEN value ELSE S_General)
    ELSE value

\* The properties _create_page sends to pages.create at time t.
CreateProperties(a, t) ==
    [Headline |-> a.title,
     Source |-> _validate_option(a.source, "source"),
     URL |-> a.url,
     Category |-> _validate_option(a.category, "category"),
     PublishedAt |-> a.published_at,
     AddedAt |-> isoformat(t)]

(***************************************************************************)
(* Bounds of the model                                                     *)
(***************************************************************************)
MaxFailures == 1     \* external calls that may fail in one behaviour
MaxInitStore == 2    \* pages in the store before the first run
MaxPerFeed == 1      \* items one provider serves
PageSize == 1        \* results per databases.query page
\* SpecRuns, where the script runs more than once:
MaxRuns == 2         \* process runs in one behaviour
MaxInitStoreRuns == 1 \* pages in the store before the first run
MaxBatchRuns == 2    \* items all providers serve together
\* SpecPages, where the store may return empty pages:
MaxEmptyPages == 1   \* empty result pages the store returns in one behaviour
\* SpecIndex, where add_articles is called more than once on one manager:
MaxAddCalls == 2     \* calls of add_articles in one run
MaxBatchPages == 1   \* items all providers serve together

ARTICLE_RETENTION_DAYS == 3

(***************************************************************************)
(* The feed clients                                                        *)
(***************************************************************************)
\* A key the provider's item does not carry (dict.get returns the default).
Absent == <<"Absent">>

Get(item, key, default) == IF item[key] = Absent THEN default ELSE item[key]

K_sports == <<"s","p","o","r","t","s">>
K_politics == <<"p","o","l","i","t","i","c","s">>
K_business == <<"b","u","s","i","n","e","s","s">>
K_technology == <<"t","e","c","h","n","o","l","o","g","y">>
K_tech == <<"t","e","c","h">>
K_entertainment == <<"e","n","t","e","r","t","a","i","n","m","e","n","t">>
K_health == <<"h","e","a","l","t","h">>

\* category_mapping.get(key, "General")
category_mapping(key) ==
    CASE key = K_sports -> S_Sports
      [] key = K_politics -> S_Politics
      [] key = K_business -> S_Business
      [] key = K_technology -> S_Technology
      [] key = K_tech -> S_Technology
      [] key = K_entertainment -> S_Entertainment
      [] key = K_health -> S_Health
      [] OTHER -> S_General

\* The result of a call that may raise: [raises, value].
Ok(v) == [raises |-> FALSE, value |-> v]
Raise == [raises |-> TRUE, value |-> <<>>]

\* MediaStackClient._map_category: category.lower() raises on None.
MediaStack_map_category(category) ==
    IF category = None THEN Raise ELSE Ok(category_mapping(Lower(category)))

\* CurrentsClient._map_category: a falsy category is "General".
Currents_map_category(category) ==
    IF ~Truthy(category) THEN Ok(S_General) ELSE Ok(category_mapping(Lower(category)))

Clients == <<"GNews", "MediaStack", "Currents">>

\* The body of the per-item try block of fetch_articles: the article of one
\* item, or Raise when the item is dropped.
ParseItem(client, item, t) ==
    CASE client = "GNews" ->
           Ok(NewsArticle(Get(item, "title", S_NoTitle), S_GNews,
                          Get(item, "url", <<>>), S_General,
                          Get(item, "published", None), t))
      [] client = "MediaStack" ->
           LET category == MediaStack_map_category(Get(item, "category", S_General))
           IN  IF category.raises THEN Raise
               ELSE Ok(NewsArticle(Get(item, "title", S_NoTitle), S_MediaStack,
                                   Get(item, "url", <<>>), category.value,
                                   Get(item, "published", None), t))
      [] client = "Currents" ->
           LET category == Currents_map_category(Get(item, "category", S_General))
           IN  IF category.raises THEN Raise
               ELSE Ok(NewsArticle(Get(item, "title", S_NoTitle), S_Currents,
                                   Get(item, "url", <<>>), category.value,
                                   Get(item, "published", None), t))

RECURSIVE ParseItems(_, _, _)
\* The loop over the items of a response: parsed articles, dropped items skipped.
ParseItems(client, items, t) ==
    IF items = <<>> THEN <<>>
    ELSE LET a == ParseItem(client, Head(items), t)
         IN  (IF a.raises THEN <<>> ELSE <<a.value>>) \o ParseItems(client, Tail(items), t)

\* fetch_articles of one client: outcome is what the HTTP call did.
\*   "ok"    the response carries the list of items
\*   "error" _make_request returned None (timeout, network, bad JSON)
\*   "nokey" the response lacks the list key
\*   "raise" the list is null: iterating it raises out of fetch_articles
fetch_articles(client, outcome, items, t) ==
    CASE outcome = "ok" -> Ok(ParseItems(client, items, t))
      [] outcome \in {"error", "nokey"} -> Ok(<<>>)
      [] outcome = "raise" -> Raise

(***************************************************************************)
(* The record store (the Notion database behind self.client)               *)
(***************************************************************************)
\* No start_cursor (None): falsy, so the query starts at the first page.
NoCursor == 0

\* The pages a databases.query with this filter matches: archived pages are
\* never returned; "before"/"after" compare the Added At date (added_at is
\* the clock value the date was written at).
Matches(p, filter) ==
    /\ ~p.archived
    /\ CASE filter.op = "all" -> TRUE
         [] filter.op = "before" -> p.added_at < filter.date
         [] filter.op = "after" -> p.added_at > filter.date

Matching(st, filter) == {i \in 1..Len(st) : Matches(st[i], filter)}

RECURSIVE Ascending(_)
Ascending(S) == IF S = {} THEN <<>> ELSE <<Min(S)>> \o Ascending(S \ {Min(S)})

\* One page of results: the first `size` matching ids from the cursor on,
\* has_more, and the cursor of the next page (None when exhausted).
QueryPageOf(st, filter, cursor, size) ==
    LET from == IF cursor = NoCursor THEN 1 ELSE cursor
        ids == Ascending({i \in Matching(st, filter) : i >= from})
        more == Len(ids) > size
    IN  [results |-> IF more THEN SubSeq(ids, 1, size) ELSE ids,
         has_more |-> more,
         next_cursor |-> IF more THEN ids[size + 1] ELSE NoCursor]

\* A full page of results.
QueryPage(st, filter, cursor) == QueryPageOf(st, filter, cursor, PageSize)

\* A page that carries no result although more are to come.
EmptyPage(resp) == resp.results = <<>> /\ resp.has_more

\* What the store may answer to a query: the full page, or, while it has
\* empty pages left to serve, an empty page with the cursor of the results.
QueryPages(st, filter, cursor, empties) ==
    {QueryPageOf(st, filter, cursor, size) :
        size \in IF empties > 0 THEN {0, PageSize} ELSE {PageSize}}

\* The empty pages left after this response.
EmptyLeft(resp, empties) == IF EmptyPage(resp) THEN empties - 1 ELSE empties

NoResponse == [results |-> <<>>, has_more |-> FALSE, next_cursor |-> NoCursor]

\* pages.update(page_id, archived=True)
Archive(st, id) == [st EXCEPT ![id].archived = TRUE]

\* pages.create(parent, properties) at clock value t
Create(st, props, t) ==
    Append(st, [title |-> props.Headline, added_at |-> t,
                archived |-> FALSE, source |-> props.Source,
                category |-> props.Category])

(***************************************************************************)
(* The world the process runs in                                           *)
(***************************************************************************)
BoundedSeq(S, n) == UNION {[1..k -> S] : k \in 0..n}

T_A == <<"A">>
T_B == <<"B">>
U_good == <<"h",":","/","/","e">>
U_bad == <<"e">>

\* What a provider may serve: a plain item with an upper-case category, an
\* item with neither category nor date, a padded title with a null category
\* and a null date, and an item whose url has neither scheme nor host.
RawItems ==
    {[title |-> T_A, url |-> U_good, category |-> <<"S","P","O","R","T","S">>,
      published |-> <<"p">>],
     [title |-> T_B, url |-> U_good, category |-> Absent, published |-> Absent],
     [title |-> <<" ","A"," ">>, url |-> U_good, category |-> None,
      published |-> None],
     [title |-> T_B, url |-> U_bad, category |-> <<"t","e","c","h">>,
      published |-> <<"p">>]}

Now0 == ARTICLE_RETENTION_DAYS * 3 + 1

\* Pages of earlier runs: one past the retention period, one exactly at the
\* cutoff, and a manually added one whose title carries padding.
InitPages ==
    {[title |-> T_A, added_at |-> Now0 - ARTICLE_RETENTION_DAYS - 1, archived |-> FALSE,
      source |-> S_GNews, category |-> S_General],
     [title |-> T_A, added_at |-> Now0 - ARTICLE_RETENTION_DAYS, archived |-> FALSE,
      source |-> S_GNews, category |-> S_General],
     [title |-> <<" ","B">>, added_at |-> Now0 - 1, archived |-> FALSE,
      source |-> S_Manual, category |-> S_General]}

\* The days that may pass between two runs.
TimeSteps == {0, ARTICLE_RETENTION_DAYS - 1}

\* An external call succeeds, or fails while the failure budget lasts.
CallOutcomes == IF failures < MaxFailures THEN {TRUE, FALSE} ELSE {TRUE}
FetchOutcomes == IF failures < MaxFailures THEN {"ok", "error", "nokey", "raise"} ELSE {"ok"}

\* A call as the history notes it. For a databases.query call, arg is the
\* start_cursor sent, next the next_cursor of the response and n the number
\* of results of the response.
Call(op, arg, ok) == [op |-> op, arg |-> arg, ok |-> ok, next |-> NoCursor, n |-> 0]
Query(op, cursor, resp) ==
    [op |-> op, arg |-> cursor, ok |-> TRUE, next |-> resp.next_cursor,
     n |-> Len(resp.results)]
QueryFailed(op, cursor) == Call(op, cursor, FALSE)
Sleep == Call("sleep", 0, TRUE)

NoSummary == [kind |-> "none", deleted |-> 0, total |-> 0, added |-> 0, skipped |-> 0,
              errors |-> 0]
NoStats == [total_articles |-> 0, recent_articles |-> 0]
NoPrev == [ran |-> FALSE, mode |-> "none", batch |-> <<>>, calls_ok |-> TRUE,
           exit_code |-> 0, added |-> 0]
NoProperties == [sent |-> FALSE, props |-> <<>>]

\* A fresh process: NotionManager.__init__ and the locals before they are set.
FreshProcess ==
    /\ pc = "setup"
    /\ exit_code = 0
    /\ _existing_titles = [set |-> FALSE, titles |-> {}]
    /\ existing_headlines = {}
    /\ has_more = FALSE
    /\ start_cursor = NoCursor
    /\ response = NoResponse
    /\ page_idx = 1
    /\ deleted_count = 0
    /\ added_count = 0
    /\ skipped_count = 0
    /\ error_count = 0
    /\ art_idx = 1
    /\ stats = NoStats
    /\ all_articles = <<>>
    /\ client_idx = 1
    /\ summary = NoSummary
    /\ calls = <<>>
    /\ outcomes = <<>>
    /\ load_snapshot = {}
    /\ load_ok = FALSE
    /\ sweep_snapshot = {}

Feeds == [1..Len(Clients) -> BoundedSeq(RawItems, MaxPerFeed)]

RECURSIVE Sum(_)
Sum(s) == IF s = <<>> THEN 0 ELSE Head(s) + Sum(Tail(s))

\* The world before the first run: a database without the required
\* properties that holds some pages, and what the providers serve (nothing
\* that matters when the script only cleans up).
InitWorld(stores, feeds, empties) ==
    /\ rawArgs = <<>>
    /\ article = NewsArticle(None, None, None, None, None, 0)
    /\ properties = NoProperties
    /\ store \in stores
    /\ schema_complete = FALSE
    /\ now = Now0
    /\ mode \in {"full", "cleanup"}
    /\ feed \in IF mode = "full" THEN feeds ELSE {[c \in 1..Len(Clients) |-> <<>>]}
    /\ failures = 0
    /\ empty_left = empties
    /\ run = 1
    /\ prev = NoPrev
    /\ FreshProcess

\* The feeds that serve at most n items together.
FeedsOf(n) == {f \in Feeds : Sum([c \in 1..Len(Clients) |-> Len(f[c])]) <= n}

Init == InitWorld(BoundedSeq(InitPages, MaxInitStore), Feeds, 0)

InitRuns == InitWorld(BoundedSeq(InitPages, MaxInitStoreRuns), FeedsOf(MaxBatchRuns), 0)

InitPaged == InitWorld(BoundedSeq(InitPages, MaxInitStore), FeedsOf(MaxBatchPages),
                       MaxEmptyPages)

(***************************************************************************)
(* NotionManager                                                           *)
(***************************************************************************)
Fail(ok) == failures' = IF ok THEN failures ELSE failures + 1

\* sys.exit(code), or the return of main.
Exit(code) == pc' = "done" /\ exit_code' = code

\* The mutant of setup_failed: the run goes on after a failed setup.
setup_failed_continue ==
    /\ pc' = "stats_initial"
    /\ UNCHANGED exit_code

\* run / run_cleanup_only: "Failed to setup database. Exiting." sys.exit(1)
setup_failed == Exit(1)

\* run / run_cleanup_only: `if not setup_database(): sys.exit(1)`.
\* setup_database retrieves the database, adds the missing properties, and
\* returns False when either call raises.
setup_database ==
    /\ pc = "setup"
    /\ \E retrieved \in CallOutcomes :
         IF ~retrieved
         THEN /\ calls' = Append(calls, Call("retrieve", 0, FALSE))
              /\ failures' = failures + 1
              /\ setup_failed
              /\ UNCHANGED schema_complete
         ELSE IF schema_complete
         THEN /\ calls' = Append(calls, Call("retrieve", 0, TRUE))
              /\ pc' = "stats_initial"
              /\ UNCHANGED <<failures, exit_code, schema_complete>>
         ELSE \E updated \in CallOutcomes :
                /\ calls' = calls \o <<Call("retrieve", 0, TRUE),
                                       Call("update_schema", 0, updated)>>
                /\ Fail(updated)
                /\ schema_complete' = updated
                /\ IF updated THEN pc' = "stats_initial" /\ UNCHANGED exit_code
                   ELSE setup_failed
    /\ UNCHANGED <<artVars, store, now, feed, empty_left, run, mode, mgrVars, aggVars,
                   outcomes, load_snapshot, load_ok, sweep_snapshot, prev>>

RECURSIVE StatsScan(_, _, _)
\* get_database_stats, `while has_more`: the responses of the scan, from
\* the cursor on, when the store serves its empty pages first.
StatsScan(st, cursor, empties) ==
    LET resp == QueryPageOf(st, [op |-> "all"], cursor, IF empties > 0 THEN 0 ELSE PageSize)
    IN  <<resp>> \o (IF resp.has_more
                     THEN StatsScan(st, resp.next_cursor, EmptyLeft(resp, empties))
                     ELSE <<>>)

\* The queries of get_database_stats in order: the pages of the scan, each
\* sent with the cursor of the response before it, and the one query of the
\* pages added in the last day.
StatsQueries(st, t, empties) ==
    LET pages == StatsScan(st, NoCursor, empties)
    IN  [i \in 1..Len(pages) |->
            Query("query_stats", IF i = 1 THEN NoCursor ELSE pages[i - 1].next_cursor,
                  pages[i])]
        \o <<Query("query_recent", NoCursor,
                   QueryPage(st, [op |-> "after", date |-> t - 1], NoCursor))>>

\* get_database_stats: the count of the results of all pages and of the
\* results of the first page of those added in the last day; zeros when a
\* query raises.
get_database_stats ==
    /\ pc \in {"stats_initial", "stats_final"}
    /\ \E empties \in {0, empty_left} :
         LET queries == StatsQueries(store, now, empties)
             scan == SelectSeq(queries, LAMBDA q : q.op = "query_stats")
             served(qs) == Len(SelectSeq(qs, LAMBDA q : q.n = 0 /\ q.next # NoCursor))
         IN  \E ok \in CallOutcomes :
               /\ Fail(ok)
               /\ IF ok
                  THEN /\ calls' = calls \o queries
                       /\ empty_left' = empty_left - served(queries)
                       /\ stats' = [total_articles |->
                                        Sum([i \in 1..Len(scan) |-> scan[i].n]),
                                    recent_articles |-> queries[Len(queries)].n]
                  ELSE \E k \in 1..Len(queries) :
                         /\ calls' = calls \o SubSeq(queries, 1, k - 1)
                                        \o <<QueryFailed(queries[k].op, queries[k].arg)>>
                         /\ empty_left' = empty_left - served(SubSeq(queries, 1, k - 1))
                         /\ stats' = NoStats
    /\ pc' = IF pc = "stats_initial" THEN "cleanup"
             ELSE IF mode = "full" THEN "summary" ELSE "report"
    /\ UNCHANGED <<artVars, store, schema_complete, now, feed, run, mode,
                   exit_code, _existing_titles, existing_headlines, has_more, start_cursor,
                   response, page_idx, deleted_count, added_count, skipped_count, error_count,
                   art_idx, aggVars, outcomes, load_snapshot, load_ok, sweep_snapshot, prev>>

ENABLE_AUTO_DELETE == TRUE

\* The mutant of SweepFilter: pages added exactly at the cutoff match too.
SweepFilter_inclusive(t) == [op |-> "before", date |-> t - ARTICLE_RETENTION_DAYS + 1]

\* cutoff_date = now - timedelta(days=retention_days); the filter of the sweep.
SweepFilter(t) == [op |-> "before", date |-> t - ARTICLE_RETENTION_DAYS]

\* The mutant of AfterCleanup: the feeds are fetched in either mode.
AfterCleanup_fetch == "fetch"

\* Where the caller goes on when cleanup_old_articles returns.
AfterCleanup == IF mode = "full" THEN "fetch" ELSE "stats_final"

\* cleanup_old_articles, up to the first query.
cleanup_old_articles ==
    /\ pc = "cleanup"
    /\ deleted_count' = 0
    /\ sweep_snapshot' = Matching(store, SweepFilter(now))
    /\ IF ENABLE_AUTO_DELETE
       THEN /\ has_more' = TRUE
            /\ start_cursor' = NoCursor
            /\ pc' = "sweep_query"
       ELSE /\ pc' = AfterCleanup
            /\ UNCHANGED <<has_more, start_cursor>>
    /\ UNCHANGED <<artVars, worldVars, run, mode, exit_code, _existing_titles,
                   existing_headlines, response, page_idx, added_count, skipped_count,
                   error_count, art_idx, stats, aggVars, calls, outcomes, load_snapshot,
                   load_ok, prev>>

\* cleanup_old_articles: the head of `while has_more` and the page query; a
\* query that raises ends the sweep with the count so far.
sweep_query ==
    /\ pc = "sweep_query"
    /\ IF has_more
       THEN \E ok \in CallOutcomes :
              /\ Fail(ok)
              /\ IF ok
                 THEN \E resp \in QueryPages(store, SweepFilter(now), start_cursor,
                                             empty_left) :
                        /\ calls' = Append(calls, Query("query_sweep", start_cursor, resp))
                        /\ empty_left' = EmptyLeft(resp, empty_left)
                        /\ response' = resp
                        /\ page_idx' = 1
                        /\ pc' = "sweep_page"
                 ELSE /\ calls' = Append(calls, QueryFailed("query_sweep", start_cursor))
                      /\ pc' = AfterCleanup
                      /\ UNCHANGED <<response, page_idx, empty_left>>
       ELSE /\ pc' = AfterCleanup
            /\ UNCHANGED <<calls, failures, response, page_idx, empty_left>>
    /\ UNCHANGED <<artVars, store, schema_complete, now, feed, run, mode, exit_code,
                   _existing_titles, existing_headlines, has_more, start_cursor,
                   deleted_count, added_count, skipped_count, error_count, art_idx, stats,
                   aggVars, outcomes, load_snapshot, load_ok, sweep_snapshot, prev>>

\* The mutant of sweep_archive_step: the try block encloses the loops, so
\* a failed archive ends the sweep.
sweep_archive_abort(id, ok) ==
    /\ calls' = calls \o (IF ok THEN <<Call("archive", id, TRUE), Sleep>>
                          ELSE <<Call("archive", id, FALSE)>>)
    /\ Fail(ok)
    /\ store' = IF ok THEN Archive(store, id) ELSE store
    /\ deleted_count' = IF ok THEN deleted_count + 1 ELSE deleted_count
    /\ page_idx' = page_idx + 1
    /\ pc' = IF ok THEN pc ELSE AfterCleanup

\* The mutant of sweep_archive_step: a failed archive is tried again.
sweep_archive_retry(id, ok) ==
    /\ calls' = calls \o (IF ok THEN <<Call("archive", id, TRUE), Sleep>>
                          ELSE <<Call("archive", id, FALSE)>>)
    /\ Fail(ok)
    /\ store' = IF ok THEN Archive(store, id) ELSE store
    /\ deleted_count' = IF ok THEN deleted_count + 1 ELSE deleted_count
    /\ page_idx' = IF ok THEN page_idx + 1 ELSE page_idx
    /\ pc' = pc

\* The body of `for page in pages_to_delete`: archive the page, count it and
\* sleep; on an exception log and continue with the next page.
sweep_archive_step(id, ok) ==
    /\ calls' = calls \o (IF ok THEN <<Call("archive", id, TRUE), Sleep>>
                          ELSE <<Call("archive", id, FALSE)>>)
    /\ Fail(ok)
    /\ store' = IF ok THEN Archive(store, id) ELSE store
    /\ deleted_count' = IF ok THEN deleted_count + 1 ELSE deleted_count
    /\ page_idx' = page_idx + 1
    /\ pc' = pc

\* cleanup_old_articles: one round of the page loop, or its end, where
\* has_more and start_cursor are taken from the response.
sweep_page ==
    /\ pc = "sweep_page"
    /\ IF page_idx <= Len(response.results)
       THEN /\ \E ok \in CallOutcomes : sweep_archive_step(response.results[page_idx], ok)
            /\ UNCHANGED <<has_more, start_cursor>>
       ELSE /\ has_more' = response.has_more
            /\ start_cursor' = response.next_cursor
            /\ pc' = "sweep_query"
            /\ UNCHANGED <<store, failures, calls, deleted_count, page_idx>>
    /\ UNCHANGED <<artVars, schema_complete, now, feed, empty_left, run, mode, exit_code,
                   _existing_titles, existing_headlines, response, added_count,
                   skipped_count, error_count, art_idx, stats, aggVars, outcomes,
                   load_snapshot, load_ok, sweep_snapshot, prev>>

(***************************************************************************)
(* NewsAggregator._fetch_articles                                          *)
(***************************************************************************)
\* The mutant of _fetch_articles: no try block around fetch_articles, so a
\* client that raises ends the run.
_fetch_articles_abort ==
    /\ pc = "fetch"
    /\ \E outcome \in FetchOutcomes :
         LET r == fetch_articles(Clients[client_idx], outcome, feed[client_idx], now)
         IN  /\ all_articles' = IF r.raises THEN all_articles ELSE all_articles \o r.value
             /\ calls' = Append(calls, Call("fetch", client_idx, outcome = "ok"))
             /\ Fail(outcome = "ok")
             /\ IF r.raises
                THEN Exit(1)
                ELSE /\ pc' = IF client_idx = Len(Clients) THEN "fetched" ELSE "fetch"
                     /\ UNCHANGED exit_code
    /\ client_idx' = client_idx + 1
    /\ UNCHANGED <<artVars, store, schema_complete, now, feed, empty_left, run, mode,
                   mgrVars, summary, outcomes, load_snapshot, load_ok, sweep_snapshot,
                   prev>>

\* One round of `for client in self.api_clients`: the client's articles are
\* appended; a client that raises is logged and skipped.
_fetch_articles ==
    /\ pc = "fetch"
    /\ \E outcome \in FetchOutcomes :
         LET r == fetch_articles(Clients[client_idx], outcome, feed[client_idx], now)
         IN  /\ all_articles' = IF r.raises THEN all_articles ELSE all_articles \o r.value
             /\ calls' = Append(calls, Call("fetch", client_idx, outcome = "ok"))
             /\ Fail(outcome = "ok")
    /\ client_idx' = client_idx + 1
    /\ pc' = IF client_idx = Len(Clients) THEN "fetched" ELSE "fetch"
    /\ UNCHANGED <<artVars, store, schema_complete, now, feed, empty_left, run, mode,
                   exit_code, mgrVars, summary, outcomes, load_snapshot, load_ok, sweep_snapshot,
                   prev>>

\* The mutant of run_after_fetch: the sweep is run after the feeds are fetched.
run_after_fetch_sweep ==
    /\ pc' = "cleanup"
    /\ UNCHANGED exit_code

\* run: `if not all_articles: return`, else on to add_articles.
run_after_fetch ==
    IF all_articles = <<>>
    THEN Exit(0)
    ELSE /\ pc' = "add_start"
         /\ UNCHANGED exit_code

run_fetched ==
    /\ pc = "fetched"
    /\ run_after_fetch
    /\ UNCHANGED <<artVars, worldVars, run, mode, mgrVars, aggVars, histVars>>

(***************************************************************************)
(* NotionManager.get_existing_headlines and add_articles                   *)
(***************************************************************************)
\* The titles of the non-archived pages of the store, as stored.
StoredTitles(st) == {st[i].title : i \in {j \in 1..Len(st) : ~st[j].archived}}

\* The titles one page of results adds to the set: the stripped content of
\* the first title segment, unless the title is missing or blank.
PageTitles(st, ids) ==
    {Strip(st[ids[k]].title) :
        k \in {j \in 1..Len(ids) : Truthy(st[ids[j]].title) /\ Strip(st[ids[j]].title) # <<>>}}

\* The mutant of add_articles: the loop starts before the index is loaded.
add_articles_no_load ==
    /\ pc = "add_start"
    /\ added_count' = 0
    /\ skipped_count' = 0
    /\ error_count' = 0
    /\ art_idx' = 1
    /\ load_snapshot' = StoredTitles(store)
    /\ existing_headlines' = {}
    /\ pc' = IF all_articles = <<>> THEN "stats_final" ELSE "add_loop"
    /\ UNCHANGED <<artVars, worldVars, run, mode, exit_code, _existing_titles, response,
                   page_idx, deleted_count, stats, aggVars, calls, outcomes,
                   sweep_snapshot, prev, has_more, start_cursor, load_ok>>

\* The mutant of add_articles: the cached set is ignored and the store is
\* scanned at every call.
add_articles_rescan ==
    /\ pc = "add_start"
    /\ added_count' = 0
    /\ skipped_count' = 0
    /\ error_count' = 0
    /\ art_idx' = 1
    /\ load_snapshot' = StoredTitles(store)
    /\ IF all_articles = <<>>
       THEN /\ pc' = "stats_final"
            /\ UNCHANGED <<existing_headlines, has_more, start_cursor>>
       ELSE /\ existing_headlines' = {}
            /\ has_more' = TRUE
            /\ start_cursor' = NoCursor
            /\ pc' = "load_query"
    /\ UNCHANGED <<artVars, worldVars, run, mode, exit_code, _existing_titles, response,
                   page_idx, deleted_count, stats, aggVars, calls, outcomes,
                   sweep_snapshot, prev, load_ok>>

\* add_articles up to the index load, and the head of get_existing_headlines:
\* the cached set when there is one, else a scan from the first page.
add_articles ==
    /\ pc = "add_start"
    /\ added_count' = 0
    /\ skipped_count' = 0
    /\ error_count' = 0
    /\ art_idx' = 1
    /\ load_snapshot' = StoredTitles(store)
    /\ IF all_articles = <<>>
       THEN /\ pc' = "stats_final"
            /\ UNCHANGED <<existing_headlines, has_more, start_cursor, load_ok>>
       ELSE IF _existing_titles.set
       THEN /\ existing_headlines' = _existing_titles.titles
            /\ load_ok' = TRUE
            /\ pc' = "add_loop"
            /\ UNCHANGED <<has_more, start_cursor>>
       ELSE /\ existing_headlines' = {}
            /\ has_more' = TRUE
            /\ start_cursor' = NoCursor
            /\ pc' = "load_query"
            /\ UNCHANGED load_ok
    /\ UNCHANGED <<artVars, worldVars, run, mode, exit_code, _existing_titles, response,
                   page_idx, deleted_count, stats, aggVars, calls, outcomes,
                   sweep_snapshot, prev>>

\* The mutant of load_failed: the titles read so far are returned.
load_failed_keep == existing_headlines' = existing_headlines

\* get_existing_headlines, `except Exception`: return set().
load_failed == existing_headlines' = {}

\* The mutant of load_page: the scan stops after the first page.
load_page_first_only(resp) ==
    /\ existing_headlines' = existing_headlines \cup PageTitles(store, resp.results)
    /\ has_more' = FALSE
    /\ start_cursor' = resp.next_cursor

\* The mutant of load_page: an empty page ends the scan.
load_page_stop_on_empty(resp) ==
    /\ existing_headlines' = existing_headlines \cup PageTitles(store, resp.results)
    /\ has_more' = (resp.has_more /\ resp.results # <<>>)
    /\ start_cursor' = resp.next_cursor

\* get_existing_headlines: the body of `while has_more` after the query.
load_page(resp) ==
    /\ existing_headlines' = existing_headlines \cup PageTitles(store, resp.results)
    /\ has_more' = resp.has_more
    /\ start_cursor' = resp.next_cursor

\* get_existing_headlines: one round of `while has_more`, or the end of the
\* scan, where the set is cached and returned.
load_query ==
    /\ pc = "load_query"
    /\ IF has_more
       THEN \E ok \in CallOutcomes :
              /\ Fail(ok)
              /\ IF ok
                 THEN \E resp \in QueryPages(store, [op |-> "all"], start_cursor,
                                             empty_left) :
                        /\ calls' = Append(calls, Query("query_load", start_cursor, resp))
                        /\ empty_left' = EmptyLeft(resp, empty_left)
                        /\ load_page(resp)
                        /\ UNCHANGED <<pc, load_ok>>
                 ELSE /\ calls' = Append(calls, QueryFailed("query_load", start_cursor))
                      /\ load_failed
                      /\ load_ok' = FALSE
                      /\ pc' = "add_loop"
                      /\ UNCHANGED <<has_more, start_cursor, empty_left>>
              /\ UNCHANGED _existing_titles
       ELSE /\ _existing_titles' = [set |-> TRUE, titles |-> existing_headlines]
            /\ load_ok' = TRUE
            /\ pc' = "add_loop"
            /\ UNCHANGED <<calls, failures, existing_headlines, has_more, start_cursor,
                           empty_left>>
    /\ UNCHANGED <<artVars, store, schema_complete, now, feed, run, mode, exit_code,
                   response, page_idx, deleted_count, added_count, skipped_count,
                   error_count, art_idx, stats, aggVars, outcomes, load_snapshot,
                   sweep_snapshot, prev>>

\* What is noted of one round of add_articles: the branch taken, the index
\* the record was checked against, and the size of the store before and after.
Outcome(kind) == [kind |-> kind, index |-> existing_headlines,
                  before |-> Len(store), after |-> Len(store')]

\* The mutant of add_created: the created title is not put in the index.
add_created_no_register(a) ==
    /\ store' = Create(store, CreateProperties(a, now), now)
    /\ added_count' = added_count + 1
    /\ UNCHANGED <<existing_headlines, _existing_titles>>

\* The mutant of add_created: the created record is not counted.
add_created_no_count(a) ==
    /\ store' = Create(store, CreateProperties(a, now), now)
    /\ UNCHANGED added_count
    /\ existing_headlines' = existing_headlines \cup {a.title}
    /\ _existing_titles' = IF _existing_titles.set
                           THEN [set |-> TRUE, titles |-> existing_headlines \cup {a.title}]
                           ELSE _existing_titles

\* The mutant of add_created: the title is put in the cached set only, so
\* it is lost when the load failed and there is no cached set.
add_created_cache_only(a) ==
    /\ store' = Create(store, CreateProperties(a, now), now)
    /\ added_count' = added_count + 1
    /\ existing_headlines' = IF _existing_titles.set
                             THEN existing_headlines \cup {a.title}
                             ELSE existing_headlines
    /\ _existing_titles' = IF _existing_titles.set
                           THEN [set |-> TRUE, titles |-> existing_headlines \cup {a.title}]
                           ELSE _existing_titles

\* add_articles after a successful _create_page: count the record and put
\* its title in the set (which is the cached set after a successful load).
add_created(a) ==
    /\ store' = Create(store, CreateProperties(a, now), now)
    /\ added_count' = added_count + 1
    /\ existing_headlines' = existing_headlines \cup {a.title}
    /\ _existing_titles' = IF _existing_titles.set
                           THEN [set |-> TRUE, titles |-> existing_headlines \cup {a.title}]
                           ELSE _existing_titles

\* The mutant of add_failed: the title is put in the set although the
\* create call raised.
add_failed_registered(a) ==
    /\ error_count' = error_count + 1
    /\ existing_headlines' = existing_headlines \cup {a.title}
    /\ _existing_titles' = IF _existing_titles.set
                           THEN [set |-> TRUE, titles |-> existing_headlines \cup {a.title}]
                           ELSE _existing_titles
    /\ UNCHANGED <<store, added_count>>

\* add_articles, `except Exception` after _create_page raised: count the
\* error and continue; the lines after the call are not reached.
add_failed(a) ==
    /\ error_count' = error_count + 1
    /\ UNCHANGED <<store, added_count, existing_headlines, _existing_titles>>

\* The mutant of is_duplicate: no record is taken for a duplicate.
is_duplicate_never(a) == FALSE

\* add_articles: `article.title in existing_headlines`.
is_duplicate(a) == a.title \in existing_headlines

\* add_articles: one round of `for article in articles`, or the return.
add_article ==
    /\ pc = "add_loop"
    /\ IF art_idx <= Len(all_articles)
       THEN LET a == all_articles[art_idx]
            IN  /\ art_idx' = art_idx + 1
                /\ UNCHANGED pc
                /\ IF ~is_valid(a)
                   THEN /\ skipped_count' = skipped_count + 1
                        /\ UNCHANGED <<store, failures, calls, added_count, error_count,
                                       existing_headlines, _existing_titles>>
                        /\ outcomes' = Append(outcomes, Outcome("invalid"))
                   ELSE IF is_duplicate(a)
                   THEN /\ skipped_count' = skipped_count + 1
                        /\ UNCHANGED <<store, failures, calls, added_count, error_count,
                                       existing_headlines, _existing_titles>>
                        /\ outcomes' = Append(outcomes, Outcome("duplicate"))
                   ELSE \E ok \in CallOutcomes :
                          /\ Fail(ok)
                          /\ IF ok
                             THEN /\ add_created(a)
                                  /\ calls' = calls \o <<Call("create", art_idx, TRUE), Sleep>>
                                  /\ outcomes' = Append(outcomes, Outcome("added"))
                                  /\ UNCHANGED error_count
                             ELSE /\ add_failed(a)
                                  /\ calls' = Append(calls, Call("create", art_idx, FALSE))
                                  /\ outcomes' = Append(outcomes, Outcome("error"))
                          /\ UNCHANGED skipped_count
       ELSE /\ pc' = "stats_final"
            /\ UNCHANGED <<store, failures, calls, outcomes, added_count, skipped_count,
                           error_count, existing_headlines, _existing_titles, art_idx>>
    /\ UNCHANGED <<artVars, schema_complete, now, feed, empty_left, run, mode, exit_code, has_more,
                   start_cursor, response, page_idx, deleted_count, stats, aggVars,
                   load_snapshot, load_ok, sweep_snapshot, prev>>

(***************************************************************************)
(* The end of a run, and the next run                                      *)
(***************************************************************************)
\* run: _print_summary(added, skipped, errors, len(all_articles), deleted, stats).
_print_summary ==
    /\ pc = "summary"
    /\ summary' = [kind |-> "summary", deleted |-> deleted_count,
                   total |-> Len(all_articles), added |-> added_count,
                   skipped |-> skipped_count, errors |-> error_count]
    /\ Exit(0)
    /\ UNCHANGED <<artVars, worldVars, run, mode, mgrVars, all_articles, client_idx,
                   histVars>>

\* run_cleanup_only: the three lines printed after the sweep.
cleanup_report ==
    /\ pc = "report"
    /\ summary' = [kind |-> "cleanup", deleted |-> deleted_count,
                   total |-> 0, added |-> 0, skipped |-> 0, errors |-> 0]
    /\ Exit(0)
    /\ UNCHANGED <<artVars, worldVars, run, mode, mgrVars, all_articles, client_idx,
                   histVars>>

\* Whether every call to the store has succeeded in this run.
StoreCallsOk == \A k \in 1..Len(calls) : calls[k].op # "fetch" => calls[k].ok

\* The scheduler starts the script again: a new process, later or at once.
\* The providers serve what they served before.
main ==
    /\ pc = "done"
    /\ run < MaxRuns
    /\ run' = run + 1
    /\ \E d \in TimeSteps : now' = now + d
    /\ mode' \in IF mode = "full" THEN {"full", "cleanup"} ELSE {"cleanup"}
    /\ prev' = [ran |-> TRUE, mode |-> mode, batch |-> all_articles,
                calls_ok |-> StoreCallsOk, exit_code |-> exit_code, added |-> added_count]
    /\ pc' = "setup"
    /\ exit_code' = 0
    /\ _existing_titles' = [set |-> FALSE, titles |-> {}]
    /\ existing_headlines' = {}
    /\ has_more' = FALSE
    /\ start_cursor' = NoCursor
    /\ response' = NoResponse
    /\ page_idx' = 1
    /\ deleted_count' = 0
    /\ added_count' = 0
    /\ skipped_count' = 0
    /\ error_count' = 0
    /\ art_idx' = 1
    /\ stats' = NoStats
    /\ all_articles' = <<>>
    /\ client_idx' = 1
    /\ summary' = NoSummary
    /\ calls' = <<>>
    /\ outcomes' = <<>>
    /\ load_snapshot' = {}
    /\ load_ok' = FALSE
    /\ sweep_snapshot' = {}
    /\ UNCHANGED <<artVars, store, schema_complete, feed, failures, empty_left>>

Next ==
    \/ setup_database
    \/ get_database_stats
    \/ cleanup_old_articles
    \/ sweep_query
    \/ sweep_page
    \/ _fetch_articles
    \/ run_fetched
    \/ add_articles
    \/ load_query
    \/ add_article
    \/ _print_summary
    \/ cleanup_report

\* One run of the script.
Spec == Init /\ [][Next]_vars

NextRuns ==
    \/ Next
    \/ main

\* The script run again and again by its scheduler.
SpecRuns == InitRuns /\ [][NextRuns]_vars

\* One run of the script against a store that may return empty pages.
SpecPages == InitPaged /\ [][Next]_vars

\* A caller that calls add_articles(articles) again on the same
\* NotionManager when the call has returned (run calls it once).
add_articles_again ==
    /\ pc = "stats_final"
    /\ mode = "full"
    /\ Cardinality({j \in 1..Len(calls) : calls[j].op = "add_articles"}) < MaxAddCalls - 1
    /\ calls' = Append(calls, Call("add_articles", 0, TRUE))
    /\ pc' = "add_start"
    /\ UNCHANGED <<artVars, worldVars, run, mode, exit_code, mgrVars, aggVars, outcomes,
                   load_snapshot, load_ok, sweep_snapshot, prev>>

NextIndex ==
    \/ Next
    \/ add_articles_again

\* One run in which the index of one manager is asked for more than once.
SpecIndex == InitRuns /\ [][NextIndex]_vars

(***************************************************************************)
(* The article model on its own: one NewsArticle is constructed from raw   *)
(* arguments and handed to _create_page.                                   *)
(***************************************************************************)
S_RandomProvider == <<"R","a","n","d","o","m","P","r","o","v","i","d","e","r">>
S_scifi == <<"s","c","i","-","f","i">>
U_not_a_url == <<"n","o","t","-","a","-","u","r","l">>
U_example == <<"h","t","t","p","s",":","/","/","e","x","a","m","p","l","e",".","c","o","m","/","a">>

Pad(s) == <<" ">> \o s \o <<" ", "\n">>

\* Absent, empty, whitespace-only, padded and plain text.
RawTitles == {None, <<>>, <<" ", " ">>, Pad(T_A), T_A, S_NoTitle}
RawSources == {None, <<>>, <<" ">>, Pad(S_GNews), S_GNews, S_RandomProvider, S_Manual}
RawCategories == {None, <<>>, <<"\t">>, Pad(S_Sports), S_Sports, S_scifi, S_General}
\* Urls with and without scheme and host, and one urlparse rejects.
RawUrls == {None, <<>>, <<" ">>, U_not_a_url, U_example, Pad(U_example),
            <<"/","/","e",".","c","/","a">>, <<"h","t","t","p",":","e">>,
            <<"h","t","t","p",":","/","/","/","a">>, <<"1","h",":","/","/","e">>,
            <<"h",":","/","/","[","e">>}
RawDates == {None, <<"p">>}

NoArgs == <<>>

InitArticle ==
    /\ rawArgs = NoArgs
    /\ article = NewsArticle(None, None, None, None, None, 0)
    /\ properties = NoProperties
    /\ store = <<>>
    /\ schema_complete = TRUE
    /\ now = Now0
    /\ mode = "full"
    /\ feed = [c \in 1..Len(Clients) |-> <<>>]
    /\ failures = 0
    /\ empty_left = 0
    /\ run = 1
    /\ prev = NoPrev
    /\ FreshProcess

\* NewsArticle(title, source, url, category, published_at)
construct ==
    /\ rawArgs = NoArgs
    /\ \E title \in RawTitles, source \in RawSources, url \in RawUrls,
          category \in RawCategories, published_at \in RawDates :
         /\ rawArgs' = <<title, source, url, category, published_at>>
         /\ article' = NewsArticle(title, source, url, category, published_at, now)
    /\ UNCHANGED <<properties, pipeVars>>

\* _create_page(article), up to the pages.create call.
_create_page ==
    /\ rawArgs # NoArgs
    /\ ~properties.sent
    /\ properties' = [sent |-> TRUE, props |-> CreateProperties(article, now)]
    /\ UNCHANGED <<rawArgs, article, pipeVars>>

NextArticle ==
    \/ construct
    \/ _create_page

SpecArticle == InitArticle /\ [][NextArticle]_vars

(***************************************************************************)
(* What the properties below speak of                                      *)
(***************************************************************************)
\* The records add_articles has gone through so far.
Processed == 1..Len(outcomes)

CallsOf(ops) == {j \in 1..Len(calls) : calls[j].op \in ops}

\* pages.create was called for record k / was called and raised.
CreateIssued(k) == \E j \in CallsOf({"create"}) : calls[j].arg = k
CreateFailed(k) == \E j \in CallsOf({"create"}) : calls[j].arg = k /\ ~calls[j].ok

\* Record k is in the store: its round appended a page that carries its title.
Created(k) ==
    /\ outcomes[k].after = outcomes[k].before + 1
    /\ store[outcomes[k].after].title = all_articles[k].title

CreatedBefore(k) == {all_articles[j].title : j \in {i \in 1..(k - 1) : Created(i)}}

\* The titles the index load read: those of the stored pages, stripped, when
\* the load succeeded.
LoadedIndex ==
    IF load_ok
    THEN {Strip(t) : t \in {u \in load_snapshot : Truthy(u) /\ Strip(u) # <<>>}}
    ELSE {}

BatchTitles == [k \in 1..Len(all_articles) |-> all_articles[k].title]

\* The pages this run of add_articles has appended to the store.
AppendedTitles ==
    IF outcomes = <<>> THEN <<>>
    ELSE [k \in 1..(Len(store) - outcomes[1].before) |-> store[outcomes[1].before + k].title]

AddReturned == mode = "full" /\ pc \in {"stats_final", "summary", "done"} /\ outcomes # <<>>

\* The store holds title "A" and the batch is ["A", "B", "A"], all valid.
ExampleBatch ==
    /\ AddReturned
    /\ BatchTitles = <<T_A, T_B, T_A>>
    /\ \A k \in 1..Len(all_articles) : is_valid(all_articles[k])
    /\ load_snapshot = {T_A}

SetupFailed == \E j \in CallsOf({"retrieve", "update_schema"}) : ~calls[j].ok

\* cleanup_old_articles has returned in this run.
SweepReturned ==
    /\ ~SetupFailed
    /\ pc \notin {"setup", "stats_initial", "cleanup", "sweep_query", "sweep_page"}

(***************************************************************************)
(* C1. add_articles, per record in fetch order: a create call is issued    *)
(* exactly when the record is valid and its title is not in the index at   *)
(* that moment (the titles loaded from the store plus the titles created   *)
(* earlier in the batch); the record is created when the call succeeds and *)
(* counted as errored when it fails; every record without a create call is *)
(* counted as skipped. With a store holding "A", a successful index load   *)
(* and no failing create, the valid batch ["A", "B", "A"] creates exactly   *)
(* "B" and skipped = 2.                                                    *)
(***************************************************************************)
C1_DedupInsert ==
    /\ \A k \in Processed :
         /\ outcomes[k].index = LoadedIndex \cup CreatedBefore(k)
         /\ CreateIssued(k) <=> (is_valid(all_articles[k])
                                 /\ all_articles[k].title \notin outcomes[k].index)
         /\ Created(k) <=> (CreateIssued(k) /\ ~CreateFailed(k))
         /\ ~Created(k) => outcomes[k].after = outcomes[k].before
    /\ skipped_count = Cardinality({k \in Processed : ~CreateIssued(k)})
    /\ error_count = Cardinality({k \in Processed : CreateFailed(k)})
    /\ added_count = Cardinality({k \in Processed : Created(k)})
    /\ (ExampleBatch /\ load_ok /\ error_count = 0)
         => (AppendedTitles = <<T_B>> /\ skipped_count = 2)

\* C1, reached: the example batch against a store holding "A".
C1_Witness ==
    /\ ExampleBatch
    /\ load_ok
    /\ error_count = 0
    /\ AppendedTitles = <<T_B>>
    /\ skipped_count = 2
    /\ added_count = 1

\* C1 as claimed: a record is created exactly when it is valid and not in
\* the index, every other record is counted as skipped, and the example
\* batch creates exactly "B" with skipped = 2.
C1_Original ==
    /\ \A k \in Processed :
         Created(k) <=> (is_valid(all_articles[k])
                         /\ all_articles[k].title \notin outcomes[k].index)
    /\ skipped_count = Cardinality({k \in Processed : ~Created(k)})
    /\ ExampleBatch => (AppendedTitles = <<T_B>> /\ skipped_count = 2)

(***************************************************************************)
(* C2. Idempotence: a full run that follows a full run, with the same      *)
(* articles fetched in both, every store call of both runs succeeding and  *)
(* no page archived by the second run's sweep, ends with added = 0.        *)
(***************************************************************************)
BatchKey(batch) ==
    [k \in 1..Len(batch) |-> [title |-> batch[k].title, source |-> batch[k].source,
                              url |-> batch[k].url, category |-> batch[k].category]]

\* A full run has ended after a full run, both with the same batch.
SecondRunDone ==
    /\ prev.ran
    /\ prev.mode = "full"
    /\ prev.exit_code = 0
    /\ mode = "full"
    /\ pc = "done"
    /\ exit_code = 0
    /\ BatchKey(all_articles) = BatchKey(prev.batch)

SnapshotTitles == load_snapshot \cup {Strip(t) : t \in load_snapshot}

NoDuplicateOfStored ==
    \A k \in Processed : Created(k) => all_articles[k].title \notin SnapshotTitles

C3_NoDuplicateOfStored == load_ok => NoDuplicateOfStored

\* C3, reached: a record is skipped for a stored title, another is created.
C3_Witness ==
    /\ load_ok
    /\ \E k \in Processed : /\ outcomes[k].kind = "duplicate"
                            /\ all_articles[k].title \in SnapshotTitles
    /\ \E k \in Processed : Created(k)

\* C3 as claimed: no run ever creates a record with a stored title.
C3_Original == NoDuplicateOfStored

(***************************************************************************)
(* C4. When setup_database fails the run ends at once with exit status 1,  *)
(* and no feed is fetched, no page created and no page archived.           *)
(***************************************************************************)
C4_SetupAbort ==
    SetupFailed => /\ pc = "done"
                   /\ exit_code = 1
                   /\ CallsOf({"fetch", "create", "archive", "query_sweep",
                               "query_load", "query_stats", "query_recent"}) = {}

\* C4, reached: the full pipeline has ended on a failed setup.
C4_Witness == SetupFailed /\ mode = "full" /\ pc = "done" /\ exit_code = 1

(***************************************************************************)
(* C5. After a sweep in which every store call succeeded, the archived     *)
(* pages are exactly those added before cutoff = now - retention period,   *)
(* whatever the number of result pages.                                    *)
(***************************************************************************)
SweepCallsOk == \A j \in CallsOf({"query_sweep", "archive"}) : calls[j].ok

C5_SweepExact ==
    (SweepReturned /\ SweepCallsOk)
        => \A i \in 1..Len(store) :
             store[i].archived <=> store[i].added_at < now - ARTICLE_RETENTION_DAYS

\* C5, reached: a sweep over several result pages has archived the old
\* pages, and a page added after the cutoff is in the store, not archived.
C5_Witness ==
    /\ SweepReturned
    /\ SweepCallsOk
    /\ Cardinality(CallsOf({"query_sweep"})) >= 2
    /\ Cardinality({i \in 1..Len(store) : store[i].archived}) >= 2
    /\ \E i \in 1..Len(store) : ~store[i].archived

C7_EnumCoercion ==
    properties.sent =>
        /\ properties.props.Source \in valid_sources
        /\ properties.props.Category \in valid_categories
        /\ properties.props.Source =
             (IF article.source \in valid_sources THEN article.source ELSE S_Unknown)
        /\ properties.props.Category =
             (IF article.category \in valid_categories THEN article.category ELSE S_General)

\* C7, reached: "RandomProvider" and "sci-fi" are sent as "Unknown" and "General".
C7_Witness ==
    /\ properties.sent
    /\ article.source = S_RandomProvider
    /\ article.category = S_scifi
    /\ properties.props.Source = S_Unknown
    /\ properties.props.Category = S_General

(***************************************************************************)
(* C8. A constructed NewsArticle has a non-empty title, a non-empty source *)
(* and a non-empty category, whatever the raw arguments.                   *)
(***************************************************************************)
C8_NonEmptyFields ==
    rawArgs # NoArgs => /\ article.title # <<>>
                        /\ article.source # <<>>
                        /\ article.category # <<>>

(***************************************************************************)
(* C9. is_valid holds exactly when the title is not "No Title", the url is *)
(* not empty and the url parses to a non-empty scheme and a non-empty      *)
(* host: false for "not-a-url", true for "https://example.com/a" with a    *)
(* title other than the sentinel.                                          *)
(***************************************************************************)
WellFormedUrl(url) ==
    /\ ~urlparse(url).raises
    /\ urlparse(url).scheme # <<>>
    /\ urlparse(url).netloc # <<>>

C9_ValidIff ==
    rawArgs # NoArgs =>
        /\ is_valid(article) <=> /\ article.title # S_NoTitle
                                 /\ article.url # <<>>
                                 /\ WellFormedUrl(article.url)
        /\ article.url = U_not_a_url => ~is_valid(article)
        /\ (article.url = U_example /\ article.title # S_NoTitle) => is_valid(article)

(***************************************************************************)
(* C10. Every full run whose setup succeeded has printed the summary of    *)
(* the added, skipped, errored and deleted counts when it ends.            *)
(***************************************************************************)
C10_SummaryAlways ==
    (mode = "full" /\ pc = "done" /\ ~SetupFailed)
        => /\ summary.kind = "summary"
           /\ summary.added = added_count
           /\ summary.skipped = skipped_count
           /\ summary.errors = error_count
           /\ summary.deleted = deleted_count

(***************************************************************************)
(* C11. After every pages.create or pages.update(archived) call, whether   *)
(* it succeeded or raised, time.sleep(RATE_LIMIT_DELAY) is called before   *)
(* the next such call is issued.                                           *)
(***************************************************************************)
Writes == CallsOf({"create", "archive"})

C11_DelayAfterWrite ==
    \A j, k \in Writes : j < k => \E s \in CallsOf({"sleep"}) : j < s /\ s < k

(***************************************************************************)
(* C12. Every paginated scan (get_existing_headlines, cleanup_old_articles,*)
(* get_database_stats) starts without a cursor, sends with every further   *)
(* query the next_cursor of the response before it, goes on after an empty *)
(* page that carries a next_cursor, issues no further query once a         *)
(* response carries no next_cursor or a query raises, and issues a bounded *)
(* number of queries on a finite store.                                    *)
(***************************************************************************)
ScanOps == {"query_load", "query_sweep", "query_stats"}

\* The query of the same kind issued before call k, 0 when there is none.
PrevQuery(k) ==
    LET before == {j \in 1..(k - 1) : calls[j].op = calls[k].op}
    IN  IF before = {} THEN 0 ELSE Max(before)

LastQuery(k) == \A j \in (k + 1)..Len(calls) : calls[j].op # calls[k].op

\* The response of query j carries the cursor of a further page.
HasNext(j) == calls[j].ok /\ calls[j].next # NoCursor

ScanRunning(op) ==
    CASE op = "query_load" -> pc = "load_query"
      [] op = "query_sweep" -> pc \in {"sweep_query", "sweep_page"}
      [] OTHER -> FALSE

C12_ScanFollowsCursor ==
    /\ \A k \in CallsOf(ScanOps) :
         LET j == PrevQuery(k)
         IN  /\ j = 0 => calls[k].arg = NoCursor
             /\ j # 0 => IF HasNext(j)
                         THEN calls[k].arg = calls[j].next
                         ELSE calls[k].arg = NoCursor /\ calls[k].op = "query_stats"
             /\ (LastQuery(k) /\ HasNext(k)) => ScanRunning(calls[k].op)
    /\ \A op \in {"query_load", "query_sweep"} :
         Cardinality(CallsOf({op})) <= Len(store) + MaxEmptyPages + 1
    /\ Cardinality(CallsOf({"query_stats"})) <= 2 * (Len(store) + MaxEmptyPages + 1)

\* C12, reached: the index load was answered an empty page with a cursor,
\* followed the cursor to a page with a result, and ended at the response
\* without a cursor.
C12_Witness ==
    /\ pc = "add_loop"
    /\ load_ok
    /\ \E i, j, k \in CallsOf({"query_load"}) :
         /\ i < j /\ j < k
         /\ calls[i].n = 0 /\ HasNext(i)
         /\ calls[j].arg = calls[i].next /\ calls[j].n > 0 /\ HasNext(j)
         /\ calls[k].arg = calls[j].next /\ calls[k].ok /\ calls[k].next = NoCursor
         /\ LastQuery(k)

(***************************************************************************)
(* C13. _fetch_articles calls fetch_articles of every client once, in      *)
(* order, whatever the earlier clients did; the merged batch is the        *)
(* concatenation, in client order, of the records of the clients whose     *)
(* request succeeded, and a client whose request failed or that raised     *)
(* contributes none.                                                       *)
(***************************************************************************)
FetchCalls == Ascending(CallsOf({"fetch"}))

\* What client c contributed: its parsed items when its request succeeded.
Contribution(c) ==
    IF calls[FetchCalls[c]].ok THEN ParseItems(Clients[c], feed[c], now) ELSE <<>>

RECURSIVE Merged(_)
Merged(c) == IF c = 0 THEN <<>> ELSE Merged(c - 1) \o Contribution(c)

\* _fetch_articles has been entered and left.
FetchEnded == mode = "full" /\ FetchCalls # <<>> /\ pc # "fetch"

C13_FetchIsolation ==
    /\ \A c \in 1..Len(FetchCalls) : calls[FetchCalls[c]].arg = c
    /\ all_articles = Merged(Len(FetchCalls))
    /\ FetchEnded => Len(FetchCalls) = Len(Clients)

\* C13, reached: a client that had items to serve failed, and the records of
\* a later client are in the batch.
C13_Witness ==
    /\ FetchEnded
    /\ \E c, d \in 1..Len(FetchCalls) :
         /\ c < d
         /\ ~calls[FetchCalls[c]].ok
         /\ feed[c] # <<>>
         /\ Contribution(d) # <<>>
    /\ all_articles # <<>>

(***************************************************************************)
(* C14. When a page query of get_existing_headlines raises, no further     *)
(* query of the load is issued, add_articles checks every record against   *)
(* an index that holds none of the titles read before the failure, and     *)
(* every fetched record is processed; when a page query of the sweep       *)
(* raises, no further query or archive call of the sweep is issued and the *)
(* count returned is the number of pages archived so far.                  *)
(***************************************************************************)
LoadFailed == \E j \in CallsOf({"query_load"}) : ~calls[j].ok
SweepFailed == \E j \in CallsOf({"query_sweep"}) : ~calls[j].ok

\* The call after which nothing of the given kinds was called.
LastOf(j, ops) == \A k \in CallsOf(ops) : k <= j

C14_QueryFailure ==
    /\ LoadFailed =>
         /\ \A j \in CallsOf({"query_load"}) : ~calls[j].ok => LastOf(j, {"query_load"})
         /\ pc # "load_query"
         /\ \A k \in Processed : outcomes[k].index = CreatedBefore(k)
         /\ AddReturned => Len(outcomes) = Len(all_articles)
    /\ SweepFailed =>
         /\ \A j \in CallsOf({"query_sweep"}) :
              ~calls[j].ok => LastOf(j, {"query_sweep", "archive"})
         /\ pc \notin {"sweep_query", "sweep_page"}
         /\ deleted_count = Cardinality({j \in CallsOf({"archive"}) : calls[j].ok})
         /\ summary.kind # "none" => summary.deleted = deleted_count

\* C14, reached: the load read a title from its first page, the query of the
\* second page raised, and add_articles went through the whole batch and
\* created the record that carries the title read.
C14_Witness ==
    /\ AddReturned
    /\ Len(outcomes) = Len(all_articles)
    /\ \E i, j \in CallsOf({"query_load"}) :
         /\ i < j
         /\ calls[i].ok /\ calls[i].n > 0
         /\ ~calls[j].ok
    /\ \E k \in Processed : Created(k) /\ all_articles[k].title \in SnapshotTitles

(***************************************************************************)
(* C15. In one run pages.create is called at most once per fetched record  *)
(* and pages.update at most once per page the sweep query returned: the    *)
(* create calls go through the batch in order and the archive calls        *)
(* through the pages in order, each call for a later item than the call    *)
(* before it, whether that call succeeded or raised.                       *)
(***************************************************************************)
C15_NoRetry ==
    /\ \A i, j \in CallsOf({"create"}) : i < j => calls[i].arg < calls[j].arg
    /\ \A i \in CallsOf({"create"}) : calls[i].arg \in 1..Len(all_articles)
    /\ \A i, j \in CallsOf({"archive"}) : i < j => calls[i].arg < calls[j].arg
    /\ \A i \in CallsOf({"archive"}) : calls[i].arg \in sweep_snapshot

\* C15, reached: a create call raised, the next create call was for the
\* next record, and the batch was gone through.
C15_Witness ==
    /\ AddReturned
    /\ error_count = 1
    /\ \E i, j \in CallsOf({"create"}) :
         i < j /\ ~calls[i].ok /\ calls[j].ok /\ calls[j].arg > calls[i].arg

(***************************************************************************)
(* C16. Started with --cleanup-only, the script calls setup_database, the  *)
(* sweep and the statistics it reports, and nothing else: no feed is       *)
(* fetched, no index is loaded and no page is created; when setup_database *)
(* fails it exits with status 1 before any query or archive call of the    *)
(* sweep, and otherwise it ends by printing the count of deleted pages.    *)
(***************************************************************************)
CleanupOps == {"retrieve", "update_schema", "query_stats", "query_recent", "query_sweep",
               "archive", "sleep"}

C16_CleanupOnly ==
    mode = "cleanup" =>
        /\ \A j \in 1..Len(calls) : calls[j].op \in CleanupOps
        /\ all_articles = <<>>
        /\ outcomes = <<>>
        /\ SetupFailed => /\ pc = "done"
                          /\ exit_code = 1
                          /\ CallsOf({"query_sweep", "archive"}) = {}
        /\ (pc = "done" /\ ~SetupFailed) => /\ exit_code = 0
                                            /\ summary.kind = "cleanup"
                                            /\ summary.deleted = deleted_count

\* C16, reached: a cleanup-only run has archived a page and printed its report.
C16_Witness ==
    /\ mode = "cleanup"
    /\ pc = "done"
    /\ summary.kind = "cleanup"
    /\ deleted_count > 0
    /\ \E i \in 1..Len(store) : store[i].archived

(***************************************************************************)
(* C17. Every item a provider serves yields a record (none is dropped): a  *)
(* category that is absent, null or not a key of category_mapping yields   *)
(* the category "General", and, for the clients that have a lookup table   *)
(* (MediaStack, Currents), a category that is a key of the table in any    *)
(* letter case yields the value of the table.                              *)
(***************************************************************************)
HasTable(c) == Clients[c] \in {"MediaStack", "Currents"}

ExpectedCategory(c, item) ==
    IF item.category \in {Absent, None} \/ ~HasTable(c)
    THEN S_General
    ELSE category_mapping(Lower(item.category))

C17_CategoryMapping ==
    \A c \in 1..Len(FetchCalls) :
        calls[FetchCalls[c]].ok =>
            /\ Len(Contribution(c)) = Len(feed[c])
            /\ \A i \in 1..Len(feed[c]) :
                 Contribution(c)[i].category = ExpectedCategory(c, feed[c][i])

(***************************************************************************)
(* C18. The calls of a full run are issued in the order of the pipeline,   *)
(* setup_database, cleanup_old_articles, _fetch_articles, add_articles,    *)
(* and none of an earlier step after one of a later step: every archive    *)
(* call and every query of the sweep precedes every feed fetch, every      *)
(* fetch precedes every query of the index load and every create call, no  *)
(* step is running while a call of a later step has been issued, and the   *)
(* summary is printed last.                                                *)
(***************************************************************************)
\* The step of the pipeline a call belongs to; 0 for the statistics and the
\* delay, which belong to none.
StepOf(op) ==
    CASE op \in {"retrieve", "update_schema"} -> 1
      [] op \in {"query_sweep", "archive"} -> 2
      [] op = "fetch" -> 3
      [] op \in {"query_load", "create"} -> 4
      [] OTHER -> 0

\* The step the run is in.
StepAt ==
    CASE pc = "setup" -> 1
      [] pc \in {"stats_initial", "cleanup", "sweep_query", "sweep_page"} -> 2
      [] pc \in {"fetch", "fetched"} -> 3
      [] pc \in {"add_start", "load_query", "add_loop"} -> 4
      [] OTHER -> 5

PipelineCalls == {j \in 1..Len(calls) : StepOf(calls[j].op) # 0}

C18_PipelineOrder ==
    mode = "full" =>
        /\ \A i, j \in PipelineCalls : i < j => StepOf(calls[i].op) <= StepOf(calls[j].op)
        /\ \A j \in PipelineCalls : StepOf(calls[j].op) <= StepAt
        /\ summary.kind # "none" => pc = "done"

\* C18, reached: a full run that archived a page, fetched the feeds, created
\* a page and printed its summary.
C18_Witness ==
    /\ mode = "full"
    /\ pc = "done"
    /\ summary.kind = "summary"
    /\ \E i, j, k \in PipelineCalls :
         /\ i < j /\ j < k
         /\ calls[i].op = "archive" /\ calls[i].ok
         /\ calls[j].op = "fetch"
         /\ calls[k].op = "create" /\ calls[k].ok

(***************************************************************************)
(* C19. In add_articles every query of the index load precedes every       *)
(* create call and the load has ended (its last query returned no          *)
(* next_cursor, or raised) before the first create call; and the index a   *)
(* record is checked against holds the title of every record created       *)
(* earlier in the batch.                                                   *)
(***************************************************************************)
LoadEnded == \E j \in CallsOf({"query_load"}) : LastQuery(j) /\ ~HasNext(j)

C19_IndexSequencing ==
    /\ \A i \in CallsOf({"query_load"}), j \in CallsOf({"create"}) : i < j
    /\ CallsOf({"create"}) # {} => LoadEnded
    /\ pc = "load_query" => CallsOf({"create"}) = {}
    /\ \A k \in Processed : CreatedBefore(k) \subseteq outcomes[k].index

\* C19, reached: after a load of several pages a record was created, and a
\* later record with the same title was skipped as a duplicate of it.
C19_Witness ==
    /\ Cardinality(CallsOf({"query_load"})) >= 2
    /\ load_ok
    /\ \E i, k \in Processed :
         /\ i < k
         /\ Created(i)
         /\ all_articles[k].title = all_articles[i].title
         /\ all_articles[i].title \notin LoadedIndex
         /\ outcomes[k].kind = "duplicate"

(***************************************************************************)
(* C20. On one NotionManager the index scan succeeds at most once: after a *)
(* load that succeeded no query of the load is issued again, a further     *)
(* call of get_existing_headlines returns the cached set, which is the set *)
(* the first call returned with the titles created since, and putting a    *)
(* title in the set writes nothing to the store (the only pages added are  *)
(* those of the successful create calls).                                  *)
(***************************************************************************)
\* The query returned the last page of a scan.
ScanSucceeded(j) == calls[j].ok /\ ~HasNext(j)

\* The record the k-th round of add_articles went through, over all calls.
RoundRecord(k) == all_articles[((k - 1) % Len(all_articles)) + 1]

RoundCreated(k) == outcomes[k].after = outcomes[k].before + 1

\* The index as round k left it.
IndexAfter(k) ==
    outcomes[k].index \cup (IF RoundCreated(k) THEN {RoundRecord(k).title} ELSE {})

\* Round k is the first round of a further call of add_articles.
FirstOfCall(k) == k > 1 /\ (k - 1) % Len(all_articles) = 0

\* A load had succeeded when the call of add_articles that round k belongs
\* to began.
CachedAtCallOf(k) ==
    LET began == Ascending(CallsOf({"add_articles"}))[(k - 1) \div Len(all_articles)]
    IN  \E j \in CallsOf({"query_load"}) : j < began /\ ScanSucceeded(j)

C20_LoadOnce ==
    /\ \A i, j \in CallsOf({"query_load"}) : i < j => ~ScanSucceeded(i)
    /\ _existing_titles.set => \E j \in CallsOf({"query_load"}) : ScanSucceeded(j)
    /\ (pc # "load_query" /\ \E j \in CallsOf({"query_load"}) : ScanSucceeded(j))
         => _existing_titles.set
    /\ \A k \in 2..Len(outcomes) :
         (FirstOfCall(k) => CachedAtCallOf(k)) => outcomes[k].index = IndexAfter(k - 1)
    /\ \A k \in 1..Len(outcomes) :
         /\ outcomes[k].after - outcomes[k].before \in {0, 1}
         /\ RoundCreated(k) <=> outcomes[k].kind = "added"
    /\ Cardinality({j \in CallsOf({"create"}) : calls[j].ok})
         = Cardinality({k \in 1..Len(outcomes) : RoundCreated(k)})

\* C20, reached: a second call of add_articles after a load that succeeded
\* and a record created: no query was issued again, and the record is now
\* skipped as a duplicate by the cached set.
C20_Witness ==
    /\ pc = "stats_final"
    /\ CallsOf({"add_articles"}) # {}
    /\ Len(outcomes) = 2 * Len(all_articles)
    /\ _existing_titles.set
    /\ \A j \in CallsOf({"query_load"}), a \in CallsOf({"add_articles"}) : j < a
    /\ \E k \in 1..Len(all_articles) :
         /\ RoundCreated(k)
         /\ outcomes[k + Len(all_articles)].kind = "duplicate"
         /\ RoundRecord(k).title \notin outcomes[1].index

(***************************************************************************)
(* C21. The counters of add_articles partition the batch: after every      *)
(* round added + skipped + errors is the number of records gone through,   *)
(* so at the return it is the number of fetched records; added is the      *)
(* number of create calls that succeeded and errors the number that        *)
(* raised.                                                                 *)
(***************************************************************************)
C21_CountersPartition ==
    /\ added_count + skipped_count + error_count = Len(outcomes)
    /\ added_count = Cardinality({j \in CallsOf({"create"}) : calls[j].ok})
    /\ error_count = Cardinality({j \in CallsOf({"create"}) : ~calls[j].ok})
    /\ AddReturned => added_count + skipped_count + error_count = Len(all_articles)
    /\ summary.kind = "summary" =>
         summary.added + summary.skipped + summary.errors = summary.total

\* C21, reached: add_articles has returned with a record added, a record
\* skipped and a record errored.
C21_Witness ==
    /\ AddReturned
    /\ added_count = 1
    /\ skipped_count = 1
    /\ error_count = 1
    /\ Len(all_articles) = 3

(***************************************************************************)
(* C22. Two create calls of one run that succeeded carry different titles, *)
(* and the pages the run has added to the store carry pairwise different   *)
(* titles, whether the index load succeeded or a query of it raised.       *)
(***************************************************************************)
CreatedCalls == {j \in CallsOf({"create"}) : calls[j].ok}

C22_NoTitleCreatedTwice ==
    /\ \A i, j \in CreatedCalls :
         i # j => all_articles[calls[i].arg].title # all_articles[calls[j].arg].title
    /\ \A i, j \in 1..Len(AppendedTitles) : i # j => AppendedTitles[i] # AppendedTitles[j]

\* C22, reached: a query of the index load raised, a record was created, and
\* a later record with the same title was skipped as a duplicate.
C22_Witness ==
    /\ AddReturned
    /\ LoadFailed
    /\ \E i, k \in Processed :
         /\ i < k
         /\ Created(i)
         /\ all_articles[k].title = all_articles[i].title
         /\ outcomes[k].kind = "duplicate"

(***************************************************************************)
(* C23. While add_articles goes through the batch, its index holds only    *)
(* titles the load read from the store and titles of records created in    *)
(* this run. A record whose create call raised is counted in errors, not   *)
(* in skipped, and its title is not put in the index: the next record of   *)
(* the batch with the same title is not skipped as a duplicate, and a      *)
(* create call is issued for it.                                           *)
(***************************************************************************)
CreatedTitles == {all_articles[k].title : k \in {i \in Processed : Created(i)}}

\* The records after k that carry the title of record k.
SameTitleAfter(k) ==
    {j \in Processed : j > k /\ all_articles[j].title = all_articles[k].title}

C23_IndexOnlyLoadedOrCreated ==
    /\ pc \in {"add_loop", "stats_final", "summary", "done"}
         => existing_headlines \subseteq LoadedIndex \cup CreatedTitles
    /\ \A k \in Processed : outcomes[k].index \subseteq LoadedIndex \cup CreatedBefore(k)
    /\ \A k \in Processed :
         CreateFailed(k) =>
            /\ outcomes[k].kind = "error"
            /\ all_articles[k].title \notin outcomes[k].index
            /\ SameTitleAfter(k) # {} =>
                 LET j == Min(SameTitleAfter(k))
                 IN  /\ all_articles[k].title \notin outcomes[j].index
                     /\ outcomes[j].kind # "duplicate"
                     /\ is_valid(all_articles[j]) => CreateIssued(j)
    /\ error_count = Cardinality({k \in Processed : CreateFailed(k)})
    /\ skipped_count = Cardinality({k \in Processed : outcomes[k].kind \in {"invalid", "duplicate"}})

\* C23, reached: the create call of a record raised, and the create call
\* issued for a later record with the same title succeeded.
C23_Witness ==
    /\ AddReturned
    /\ error_count = 1
    /\ skipped_count = 0
    /\ \E k \in Processed :
         /\ CreateFailed(k)
         /\ SameTitleAfter(k) # {}
         /\ Created(Min(SameTitleAfter(k)))

====
